---- MODULE Spec2Model ----
(***************************************************************************)
(* RC filter calculator (src/rc_filter.py).                                *)
(*                                                                         *)
(* Strings are sequences of one-character strings.  Numbers are decimal    *)
(* records [m, e] standing for m * 10^e, kept normalised (m = 0 and e = 0, *)
(* or m not divisible by 10).  Python floats are modelled by these exact   *)
(* decimals; the one place where binary rounding changes a decision of the *)
(* program on a 3-significant-figure value (the quotient 1e-06 / 10**-9)   *)
(* is modelled in FloatDiv.                                                *)
(***************************************************************************)
EXTENDS Integers, Sequences, FiniteSets, TLC

(***************************************************************************)
(* Bounds of the model                                                     *)
(***************************************************************************)
\* longest numeric part of a structured argument
MaxNumLen == 3
\* longest free-form raw argument
MaxRawLen == 3
\* a formatted value is m * 10^e with -MaxNegFmtExp <= e <= MaxFmtExp
MaxNegFmtExp == 15
MaxFmtExp == 9

(***************************************************************************)
(* Characters                                                              *)
(***************************************************************************)
Digits == {"0", "1", "2", "3", "4", "5", "6", "7", "8", "9"}
LowerLetters == {"a", "d", "e", "f", "h", "k", "m", "n", "o", "p", "r", "s", "t", "u", "x", "z"}
UpperLetters == {"A", "D", "E", "F", "H", "K", "M", "N", "O", "P", "R", "S", "T", "U", "X", "Z"}

\* str.lower() on one character
LowerChar(c) ==
  CASE c = "A" -> "a" [] c = "D" -> "d" [] c = "E" -> "e" [] c = "F" -> "f"
    [] c = "H" -> "h" [] c = "K" -> "k" [] c = "M" -> "m" [] c = "N" -> "n"
    [] c = "O" -> "o" [] c = "P" -> "p" [] c = "R" -> "r" [] c = "S" -> "s"
    [] c = "T" -> "t" [] c = "U" -> "u" [] c = "X" -> "x" [] c = "Z" -> "z"
    [] OTHER -> c

\* str.isalpha() and str.isnumeric() on one character
IsAlpha(c) == c \in LowerLetters \cup UpperLetters
IsNumeric(c) == c \in Digits

DigitVal(c) ==
  CASE c = "0" -> 0 [] c = "1" -> 1 [] c = "2" -> 2 [] c = "3" -> 3 [] c = "4" -> 4
    [] c = "5" -> 5 [] c = "6" -> 6 [] c = "7" -> 7 [] c = "8" -> 8 [] c = "9" -> 9

DigitChar(n) == <<"0", "1", "2", "3", "4", "5", "6", "7", "8", "9">>[n + 1]

(***************************************************************************)
(* Strings                                                                 *)
(***************************************************************************)
\* str.find(c): index of the first occurrence counted from 0, -1 when absent
Find(s, c) ==
  IF \E k \in 1..Len(s) : s[k] = c
  THEN (CHOOSE k \in 1..Len(s) : s[k] = c /\ \A j \in 1..(k - 1) : s[j] # c) - 1
  ELSE -1

\* str.lower()
LowerStr(s) == [k \in 1..Len(s) |-> LowerChar(s[k])]

\* ''.join(s.split())
RemoveWhitespace(s) == SelectSeq(s, LAMBDA c : c # " ")

\* s[:n] and s[n:] for 0 <= n
Take(s, n) == SubSeq(s, 1, IF n < Len(s) THEN n ELSE Len(s))
Drop(s, n) == SubSeq(s, n + 1, Len(s))

\* s[:-n]
DropLast(s, n) == SubSeq(s, 1, Len(s) - n)

AllDigits(s) == \A k \in 1..Len(s) : s[k] \in Digits

(***************************************************************************)
(* Decimal numbers                                                         *)
(***************************************************************************)
RECURSIVE Pow10(_)
Pow10(n) == IF n = 0 THEN 1 ELSE 10 * Pow10(n - 1)

RECURSIVE NumDigits(_)
NumDigits(m) == IF m < 10 THEN 1 ELSE 1 + NumDigits(m \div 10)

RECURSIVE Norm(_, _)
Norm(m, e) ==
  IF m = 0 THEN [m |-> 0, e |-> 0]
  ELSE IF m % 10 = 0 THEN Norm(m \div 10, e + 1)
  ELSE [m |-> m, e |-> e]

\* position of the leading digit: the value lies in [10^(Pos-1), 10^Pos)
Pos(d) == NumDigits(d.m) + d.e

One == [m |-> 1, e |-> 0]
GreaterThanOne(d) == d.m > 0 /\ (Pos(d) >= 2 \/ (Pos(d) = 1 /\ d # One))
LessThanOne(d) == d.m = 0 \/ Pos(d) <= 0
LessThanThousand(d) == d.m = 0 \/ Pos(d) <= 3
\* num == int(num)
IsIntegral(d) == d.e >= 0

RECURSIVE DigitsValue(_)
DigitsValue(s) ==
  IF Len(s) = 0 THEN 0 ELSE 10 * DigitsValue(DropLast(s, 1)) + DigitVal(s[Len(s)])

RECURSIVE DigitsOf(_)
DigitsOf(m) ==
  IF m < 10 THEN <<DigitChar(m)>> ELSE Append(DigitsOf(m \div 10), DigitChar(m % 10))

RECURSIVE Zeros(_)
Zeros(n) == IF n <= 0 THEN <<>> ELSE <<"0">> \o Zeros(n - 1)

\* number of "0" characters at the end of s
RECURSIVE TrailingZeros(_)
TrailingZeros(s) ==
  IF Len(s) = 0 \/ s[Len(s)] # "0" THEN 0 ELSE 1 + TrailingZeros(DropLast(s, 1))

\* float(s) for an unsigned decimal literal: digits with an optional point
\* and an optional exponent e[+-]digits; ok = FALSE stands for ValueError
ParseFloat(s) ==
  LET epos == Find(s, "e")
      mant == IF epos = -1 THEN s ELSE Take(s, epos)
      expo == IF epos = -1 THEN <<>> ELSE Drop(s, epos + 1)
      signed == Len(expo) > 0 /\ expo[1] \in {"-", "+"}
      edig == IF signed THEN Drop(expo, 1) ELSE expo
      eok == epos = -1 \/ (Len(edig) > 0 /\ AllDigits(edig))
      eval == IF epos = -1 \/ ~eok THEN 0
              ELSE IF signed /\ expo[1] = "-" THEN 0 - DigitsValue(edig)
              ELSE DigitsValue(edig)
      dpos == Find(mant, ".")
      ip == IF dpos = -1 THEN mant ELSE Take(mant, dpos)
      fp == IF dpos = -1 THEN <<>> ELSE Drop(mant, dpos + 1)
      mok == AllDigits(ip) /\ AllDigits(fp) /\ Len(ip) + Len(fp) >= 1
  IN IF mok /\ eok
     THEN [ok |-> TRUE,
           val |-> Norm(DigitsValue(DropLast(ip \o fp, TrailingZeros(ip \o fp))),
                        eval - Len(fp) + TrailingZeros(ip \o fp))]
     ELSE [ok |-> FALSE, val |-> [m |-> 0, e |-> 0]]

\* str(x) of an int (integral value) or repr of a float: positional notation,
\* scientific with a two-digit exponent below 1e-4
Str(d) ==
  LET ds == DigitsOf(d.m)
      n == Len(ds)
      p == Pos(d)
      x == p - 1
      ax == IF x < 0 THEN 0 - x ELSE x
  IN IF IsIntegral(d) THEN ds \o Zeros(d.e)
     ELSE IF p <= -4
          THEN <<ds[1]>> \o (IF n > 1 THEN <<".">> \o Drop(ds, 1) ELSE <<>>)
               \o <<"e", "-">> \o (IF ax < 10 THEN <<"0">> ELSE <<>>) \o DigitsOf(ax)
     ELSE IF p <= 0 THEN <<"0", ".">> \o Zeros(0 - p) \o ds
     ELSE Take(ds, p) \o <<".">> \o Drop(ds, p)

(***************************************************************************)
(* Filter math                                                             *)
(***************************************************************************)
\* values['...'] == '' : the slot of a kind no argument has supplied
Empty == [m |-> -1, e |-> 0]

\* 1/(2*pi) = 0.1591549431 held as InvTwoPi * 10^InvTwoPiExp
InvTwoPi == 1591549431
InvTwoPiExp == -10

\* 1/(2*pi*a*b), the quotient carried to at least 7 significant digits;
\* TypeError when an operand is the '' of an unknown slot, ZeroDivisionError
\* when an operand is 0
Reciprocal(a, b) ==
  IF a = Empty \/ b = Empty THEN [err |-> "TypeError", val |-> Empty]
  ELSE IF a.m = 0 \/ b.m = 0 THEN [err |-> "ZeroDivisionError", val |-> Empty]
  ELSE LET P == a.m * b.m
           q1 == InvTwoPi \div P
           r1 == InvTwoPi % P
       IN IF q1 < 1000000
          THEN [err |-> "none",
                val |-> Norm(q1 * 1000 + ((r1 * 1000) \div P), InvTwoPiExp - 3 - a.e - b.e)]
          ELSE [err |-> "none", val |-> Norm(q1, InvTwoPiExp - a.e - b.e)]

\* f = 1/(2*pi*resistance*capacitance)
get_frequency(resistance, capacitance) == Reciprocal(resistance, capacitance)

\* x = (1/frequency)/(2*pi*component)
get_component(frequency, component) ==
  IF frequency = Empty THEN [err |-> "TypeError", val |-> Empty]
  ELSE IF frequency.m = 0 THEN [err |-> "ZeroDivisionError", val |-> Empty]
  ELSE Reciprocal(frequency, component)

(***************************************************************************)
(* Significant-figure rounder                                              *)
(***************************************************************************)
\* sig_fig that cuts the digits after the third instead of rounding them
sig_fig_truncating(value) ==
  IF NumDigits(value.m) <= 3 THEN value
  ELSE Norm(value.m \div Pow10(NumDigits(value.m) - 3), value.e + NumDigits(value.m) - 3)

\* f'{value:.3g}' -> float -> f'{:g}' -> float -> int when integral: the
\* value rounded to 3 significant digits, ties to even.  (main only passes
\* numbers, so the string branch of lines 102-106 is not taken.)
sig_fig(value) ==
  LET n == NumDigits(value.m)
      k == n - 3
      q == value.m \div Pow10(k)
      r == value.m % Pow10(k)
      half == 5 * Pow10(k - 1)
      up == r > half \/ (r = half /\ q % 2 = 1)
  IN IF n <= 3 THEN value
     ELSE Norm(IF up THEN q + 1 ELSE q, value.e + k)

(***************************************************************************)
(* Quantity parser                                                         *)
(***************************************************************************)
\* input_tidy that lowercases the whole argument, an uppercase M included
input_tidy_all_lower(value) ==
  LET x1 == LowerStr(RemoveWhitespace(value))
  IN IF Len(value) >= 2
     THEN IF Find(x1, "o") # -1
          THEN [err |-> "none", x |-> Take(x1, Find(x1, "o") + 1)]
          ELSE IF Find(x1, "h") # -1
          THEN [err |-> "none", x |-> Take(x1, Find(x1, "h") + 1) \o <<"z">>]
          ELSE IF Find(x1, "f") # -1
          THEN [err |-> "none", x |-> Take(x1, Find(x1, "f") + 1)]
          ELSE [err |-> "UnitNotRecognized", x |-> <<>>]
     ELSE [err |-> "MissingUnits", x |-> <<>>]

\* input_tidy: err is "none", "UnitNotRecognized" (ValueError of line 140)
\* or "MissingUnits" (Exception of line 142)
input_tidy(value) ==
  LET x0 == RemoveWhitespace(value)
      mega == Find(x0, "M")
      x1 == IF mega # Find(LowerStr(x0), "M")
            THEN [LowerStr(x0) EXCEPT ![mega + 1] = "M"]
            ELSE LowerStr(x0)
  IN IF Len(value) >= 2
     THEN IF Find(x1, "o") # -1
          THEN [err |-> "none", x |-> Take(x1, Find(x1, "o") + 1)]
          ELSE IF Find(x1, "h") # -1
          THEN [err |-> "none", x |-> Take(x1, Find(x1, "h") + 1) \o <<"z">>]
          ELSE IF Find(x1, "f") # -1
          THEN [err |-> "none", x |-> Take(x1, Find(x1, "f") + 1)]
          ELSE [err |-> "UnitNotRecognized", x |-> <<>>]
     ELSE [err |-> "MissingUnits", x |-> <<>>]

\* unit dictionary without the 'z' key
unit_without_z(c) ==
  CASE c = "h" -> "frequency"
    [] c = "o" -> "resistance"
    [] c = "f" -> "capacitance"
    [] OTHER -> ""

\* the unit dictionary of get_unit
unit(c) ==
  CASE c \in {"h", "z"} -> "frequency"
    [] c = "o" -> "resistance"
    [] c = "f" -> "capacitance"
    [] OTHER -> ""

\* get_unit: the kind named by the last character, '' when there is none
\* (its argument is a string returned by input_tidy, never empty)
get_unit(value) ==
  LET last == value[Len(value)]
  IN IF IsAlpha(last)
     THEN IF unit(last) # ""
          THEN [x |-> unit(last), out |-> <<>>]
          ELSE [x |-> "", out |-> <<"Unrecognized unit.">>]
     ELSE IF IsNumeric(last)
     THEN [x |-> "", out |-> <<"Value passed lacks unit.">>]
     ELSE [x |-> "", out |-> <<>>]

\* strip_unit: IndexError when value[-1] or value[-2] does not exist
strip_unit(value) ==
  IF Len(value) = 0 THEN [err |-> "IndexError", x |-> <<>>, out |-> <<>>]
  ELSE LET last == value[Len(value)]
       IN IF IsAlpha(last)
          THEN IF Len(value) < 2 THEN [err |-> "IndexError", x |-> <<>>, out |-> <<>>]
               ELSE IF value[Len(value) - 1] = "h" /\ last = "z"
               THEN [err |-> "none", x |-> DropLast(value, 2), out |-> <<>>]
               ELSE IF last = "f" \/ last = "o"
               THEN [err |-> "none", x |-> DropLast(value, 1), out |-> <<>>]
               ELSE [err |-> "none", x |-> <<>>, out |-> <<"Value lacks unit.">>]
          ELSE IF IsNumeric(last)
          THEN [err |-> "none", x |-> <<>>, out |-> <<"Value passed lacks unit and prefix.">>]
          ELSE [err |-> "none", x |-> <<>>, out |-> <<>>]

\* the prefix dictionary of strip_prefix, as powers of ten; 0 = no such key
PrefixSymbols == {"p", "n", "u", "m", "k", "M"}
prefix_factor(c) ==
  CASE c = "p" -> -12 [] c = "n" -> -9 [] c = "u" -> -6
    [] c = "m" -> -3 [] c = "k" -> 3 [] c = "M" -> 6
    [] OTHER -> 0

\* strip_prefix: float(value[:-1]) is evaluated before the dictionary lookup,
\* so an unparseable head raises ValueError; after the KeyError of a
\* non-prefix last character the value itself is parsed when that character
\* is a digit, else the error is printed and float('') raises ValueError
strip_prefix(value) ==
  LET head == ParseFloat(IF Len(value) = 0 THEN <<>> ELSE DropLast(value, 1))
      last == value[Len(value)]
      whole == ParseFloat(value)
  IN IF ~head.ok THEN [err |-> "ValueError", x |-> Empty, out |-> <<>>]
     ELSE IF last \in PrefixSymbols
     THEN [err |-> "none", x |-> Norm(head.val.m, head.val.e + prefix_factor(last)), out |-> <<>>]
     ELSE IF last \in Digits
     THEN IF whole.ok THEN [err |-> "none", x |-> whole.val, out |-> <<>>]
          ELSE [err |-> "ValueError", x |-> Empty, out |-> <<>>]
     ELSE [err |-> "ValueError", x |-> Empty, out |-> <<"Error: unable to parse value.">>]

(***************************************************************************)
(* Engineering formatter                                                   *)
(***************************************************************************)
\* range(3, 6, 3): the scan stops before the mega exponent
PositiveExponentsShort == <<3>>

\* range(3, 7, 3) and range(-12, -2, 3)
PositiveExponents == <<3, 6>>
NegativeExponents == <<-12, -9, -6, -3>>

\* the prefix dictionary of add_prefix; "" = KeyError
prefix_symbol(exponent) ==
  CASE exponent = -12 -> "p" [] exponent = -9 -> "n" [] exponent = -6 -> "u"
    [] exponent = -3 -> "m" [] exponent = 3 -> "k" [] exponent = 6 -> "M"
    [] OTHER -> ""

\* num / 10**i in IEEE double arithmetic.  The quotient is exact to within
\* one unit in the 16th digit; for the 3-significant-figure values only
\* 1e-06 / 10**-9 = 999.9999999999999 falls on the other side of a bound the
\* program compares it with (kept here to 9 digits).
FloatDiv(num, i) ==
  IF num = [m |-> 1, e |-> -6] /\ i = -9
  THEN [m |-> 999999999, e |-> -6]
  ELSE Norm(num.m, num.e - i)

\* the for loops of lines 234-239 and 241-246: the first exponent i with
\* 1000 > num / 10**i > 1, else the initial exponent 1
RECURSIVE FirstExponent(_, _)
FirstExponent(num, exps) ==
  IF Len(exps) = 0 THEN 1
  ELSE IF LessThanThousand(FloatDiv(num, Head(exps))) /\ GreaterThanOne(FloatDiv(num, Head(exps)))
  THEN Head(exps)
  ELSE FirstExponent(num, Tail(exps))

\* add_prefix: the string of the scaled number followed by the prefix
add_prefix(value) ==
  LET num == value
      exponent == IF GreaterThanOne(num) THEN FirstExponent(num, PositiveExponents)
                  ELSE IF LessThanOne(num) THEN FirstExponent(num, NegativeExponents)
                  ELSE 1
  IN IF exponent # 1
     THEN IF prefix_symbol(exponent) # ""
          THEN Str(sig_fig(FloatDiv(num, exponent))) \o <<prefix_symbol(exponent)>>
          ELSE <<"None">>
     ELSE Str(num)

(***************************************************************************)
(* Command-line arguments                                                  *)
(***************************************************************************)
RECURSIVE SeqsUpTo(_, _)
SeqsUpTo(S, n) ==
  IF n = 0 THEN {<<>>}
  ELSE LET shorter == SeqsUpTo(S, n - 1)
       IN shorter \cup {Append(t, c) : t \in shorter, c \in S}

\* the written units of the usage text, in several letter cases
UnitWords ==
  { <<"o">>,
    <<"O">>,
    <<"o", "h", "m">>,
    <<"O", "H", "M">>,
    <<"o", "h", "m", "s">>,
    <<"O", "H", "M", "S">>,
    <<"f">>,
    <<"F">>,
    <<"f", "a", "r", "a", "d">>,
    <<"F", "A", "R", "A", "D">>,
    <<"f", "a", "r", "a", "d", "s">>,
    <<"F", "A", "R", "A", "D", "S">>,
    <<"h", "z">>,
    <<"H", "Z">>,
    <<"h", "e", "r", "t", "z">>,
    <<"H", "E", "R", "T", "Z">>,
    <<"H", "z">>,
    <<"O", "h", "m", "s">>,
    <<"F", "a", "r", "a", "d">>,
    <<"H", "e", "r", "t", "z">> }

\* numeric parts: every string of these characters up to MaxNumLen
NumberChars == {"0", "2", "."}
Numbers == SeqsUpTo(NumberChars, MaxNumLen) \ {<<>>}

\* what may stand between the number and the unit: nothing, an accepted
\* prefix, or an uppercase K
PrefixParts == {<<>>, <<"K">>} \cup {<<c>> : c \in PrefixSymbols}

StructuredTokens == {n \o p \o u : n \in Numbers, p \in PrefixParts, u \in UnitWords}

\* free-form arguments: every string of these characters up to MaxRawLen
RawChars == {"2", "k", "o", "h", " ", "x"}
RawTokens == SeqsUpTo(RawChars, MaxRawLen)

ParseTokens == StructuredTokens \cup RawTokens

\* the other argument of a run that parses one of ParseTokens
SecondTokens == {<<"2", "0", "k", "H", "z">>, <<"2", "0", "0", "k", "o">>}

\* arguments of the whole-program runs
MainTokens ==
  { <<"2", "0", "0", "k", "o">>,
    <<"2", "0", "k", "H", "z">>,
    <<"2", "0", "n", "F">>,
    <<"0", "0", "o">>,
    <<"5", "o">>,
    <<"1", "M", "O", "h", "m">>,
    <<"2", ".", "5", "u", "f">>,
    <<"1", "0", "0", "0", " ", "h", "z">>,
    <<"4", ".", "7", "k", "o", "h", "m", "s">>,
    <<"1", "0", "0", "p", "F", "a", "r", "a", "d", "s">>,
    <<"1", "m", "H", "e", "r", "t", "z">>,
    <<"1", "0", " ", "o">> }

(***************************************************************************)
(* State                                                                   *)
(***************************************************************************)
VARIABLES
  pc,        \* position in main (or in the formatter round trip)
  args,      \* sys.argv[1:]
  i,         \* index in args of the argument the for loop is at
  tidy_arg,  \* tidy_arg of main
  stripped,  \* value returned by strip_unit
  magnitude, \* value returned by strip_prefix
  values,    \* the values dictionary of main
  res,       \* the solved value after sig_fig (frq, res or cap)
  text,      \* string returned by add_prefix
  stdout,    \* lines printed so far
  failure    \* "none" or the exception that ended the run

vars == <<pc, args, i, tidy_arg, stripped, magnitude, values, res, text, stdout, failure>>

Line(l, k, t) == [line |-> l, kind |-> k, text |-> t]
Messages(out) == [k \in 1..Len(out) |-> Line(out[k], "", <<>>)]

ParseFailures == {"UnitNotRecognized", "MissingUnits", "IndexError", "ValueError"}

InitCommon ==
  /\ pc = "start"
  /\ i = 1
  /\ tidy_arg = <<>>
  /\ stripped = <<>>
  /\ magnitude = Empty
  /\ values = [frequency |-> Empty, resistance |-> Empty, capacitance |-> Empty]
  /\ res = Empty
  /\ text = <<>>
  /\ stdout = <<>>
  /\ failure = "none"

\* whole-program runs: any two of MainTokens, or a wrong number of arguments
Init ==
  /\ args \in {<<a, b>> : a \in MainTokens, b \in MainTokens}
              \cup {<<>>} \cup {<<a>> : a \in SecondTokens}
              \cup {<<a, a, a>> : a \in SecondTokens}
  /\ InitCommon

\* runs whose first argument ranges over ParseTokens
InitParse ==
  /\ args \in {<<a, b>> : a \in ParseTokens, b \in SecondTokens}
              \cup {<<a>> : a \in SecondTokens}
  /\ InitCommon

(***************************************************************************)
(* main                                                                    *)
(***************************************************************************)
\* lines 288-292: wrong argument count, usage message, sys.exit()
Usage ==
  /\ pc = "start"
  /\ Len(args) # 2
  /\ stdout' = Append(stdout, Line("usage", "", <<>>))
  /\ pc' = "exit"
  /\ UNCHANGED <<args, i, tidy_arg, stripped, magnitude, values, res, text, failure>>

\* line 294: the for loop starts at the first argument
Begin ==
  /\ pc = "start"
  /\ Len(args) = 2
  /\ pc' = "tidy"
  /\ UNCHANGED <<args, i, tidy_arg, stripped, magnitude, values, res, text, stdout, failure>>

\* line 295: tidy_arg = input_tidy(i)
TidyArg ==
  /\ pc = "tidy"
  /\ LET r == input_tidy(args[i])
     IN /\ tidy_arg' = r.x
        /\ failure' = r.err
        /\ pc' = IF r.err = "none" THEN "strip_unit" ELSE "crashed"
  /\ UNCHANGED <<args, i, stripped, magnitude, values, res, text, stdout>>

\* line 304: strip_unit(tidy_arg), the innermost call of the assignment
StripUnit ==
  /\ pc = "strip_unit"
  /\ LET r == strip_unit(tidy_arg)
     IN /\ stripped' = r.x
        /\ stdout' = stdout \o Messages(r.out)
        /\ failure' = r.err
        /\ pc' = IF r.err = "none" THEN "strip_prefix" ELSE "crashed"
  /\ UNCHANGED <<args, i, tidy_arg, magnitude, values, res, text>>

\* line 304: strip_prefix(...)
StripPrefix ==
  /\ pc = "strip_prefix"
  /\ LET r == strip_prefix(stripped)
     IN /\ magnitude' = r.x
        /\ stdout' = stdout \o Messages(r.out)
        /\ failure' = r.err
        /\ pc' = IF r.err = "none" THEN "store" ELSE "crashed"
  /\ UNCHANGED <<args, i, tidy_arg, stripped, values, res, text>>

\* lines 303-304: values[get_unit(tidy_arg)] = sig_fig(...), then the loop
\* moves to the next argument or ends
Store ==
  /\ pc = "store"
  /\ LET k == get_unit(tidy_arg)
     IN /\ values' = (k.x :> sig_fig(magnitude)) @@ values
        /\ stdout' = stdout \o Messages(k.out)
  /\ IF i < Len(args) THEN pc' = "tidy" /\ i' = i + 1
     ELSE pc' = "solve" /\ i' = i
  /\ UNCHANGED <<args, tidy_arg, stripped, magnitude, res, text, failure>>

\* the body shared by the three branches of lines 307-317: r is the result of
\* the filter formula, kind the quantity the printed sentence names
Report(r, kind) ==
  /\ failure' = r.err
  /\ IF r.err = "none"
     THEN /\ res' = sig_fig(r.val)
          /\ text' = add_prefix(sig_fig(r.val))
          /\ stdout' = Append(stdout, Line("result", kind, add_prefix(sig_fig(r.val))))
          /\ pc' = "exit"
     ELSE /\ pc' = "crashed"
          /\ UNCHANGED <<res, text, stdout>>
  /\ UNCHANGED <<args, i, tidy_arg, stripped, magnitude, values>>

\* lines 307-310
SolveFrequency ==
  /\ pc = "solve"
  /\ values.frequency = Empty
  /\ Report(get_frequency(values.resistance, values.capacitance), "frequency")

\* lines 311-313
SolveResistance ==
  /\ pc = "solve"
  /\ values.frequency # Empty
  /\ values.resistance = Empty
  /\ Report(get_component(values.frequency, values.capacitance), "resistance")

\* the capacitance branch printing the sentence of the resistance branch
SolveCapacitanceAsResistor ==
  /\ pc = "solve"
  /\ values.frequency # Empty
  /\ values.resistance # Empty
  /\ values.capacitance = Empty
  /\ Report(get_component(values.frequency, values.resistance), "resistance")

\* lines 314-317
SolveCapacitance ==
  /\ pc = "solve"
  /\ values.frequency # Empty
  /\ values.resistance # Empty
  /\ values.capacitance = Empty
  /\ Report(get_component(values.frequency, values.resistance), "capacitance")

Next ==
  \/ Usage
  \/ Begin
  \/ TidyArg
  \/ StripUnit
  \/ StripPrefix
  \/ Store
  \/ SolveFrequency
  \/ SolveResistance
  \/ SolveCapacitance

Spec == Init /\ [][Next]_vars

SpecParse == InitParse /\ [][Next]_vars

(***************************************************************************)
(* add_prefix and strip_prefix applied to 3-significant-figure values      *)
(***************************************************************************)
FmtValues == {Norm(m, e) : m \in 1..999, e \in (0 - MaxNegFmtExp)..MaxFmtExp}

InitFmt ==
  /\ pc = "format"
  /\ args = <<>>
  /\ i = 1
  /\ tidy_arg = <<>>
  /\ stripped = <<>>
  /\ magnitude = Empty
  /\ values = [frequency |-> Empty, resistance |-> Empty, capacitance |-> Empty]
  /\ res \in FmtValues
  /\ text = <<>>
  /\ stdout = <<>>
  /\ failure = "none"

\* text = add_prefix(res)
ApplyAddPrefix ==
  /\ pc = "format"
  /\ text' = add_prefix(res)
  /\ pc' = "reparse"
  /\ UNCHANGED <<args, i, tidy_arg, stripped, magnitude, values, res, stdout, failure>>

\* magnitude = strip_prefix(text)
ApplyStripPrefix ==
  /\ pc = "reparse"
  /\ LET r == strip_prefix(text)
     IN /\ magnitude' = r.x
        /\ stdout' = stdout \o Messages(r.out)
        /\ failure' = r.err
        /\ pc' = IF r.err = "none" THEN "reparsed" ELSE "crashed"
  /\ UNCHANGED <<args, i, tidy_arg, stripped, values, res, text>>

NextFmt ==
  \/ ApplyAddPrefix
  \/ ApplyStripPrefix

SpecFmt == InitFmt /\ [][NextFmt]_vars

(***************************************************************************)
(* Properties                                                              *)
(***************************************************************************)
\* the argument the for loop is at
AtArg == i \in 1..Len(args)

\* an argument read as <number><rest>: the leading run of digits and points
RECURSIVE NumRun(_)
NumRun(t) ==
  IF Len(t) = 0 \/ Head(t) \notin Digits \cup {"."} THEN 0 ELSE 1 + NumRun(Tail(t))
TokNumber(t) == Take(t, NumRun(t))
TokRest(t) == Drop(t, NumRun(t))
TokValue(t) == ParseFloat(TokNumber(t)).val

IsDigitNumber(n) == Len(n) >= 1 /\ AllDigits(n)
HasPrefixIn(t, P) ==
  /\ Len(TokRest(t)) >= 2
  /\ TokRest(t)[1] \in P
  /\ Tail(TokRest(t)) \in UnitWords
\* <number><unit>, the number written with digits only
IsPlainToken(t) == IsDigitNumber(TokNumber(t)) /\ TokRest(t) \in UnitWords
\* <number>K<unit>
IsKToken(t) == IsDigitNumber(TokNumber(t)) /\ HasPrefixIn(t, {"K"})
\* <number><prefix><unit> with an accepted prefix
IsPrefixedToken(t) == ParseFloat(TokNumber(t)).ok /\ HasPrefixIn(t, PrefixSymbols)
TokPrefix(t) == TokRest(t)[1]
TokUnitWord(t) == IF TokRest(t) \in UnitWords THEN TokRest(t) ELSE Tail(TokRest(t))

\* the scale factor the documentation gives for a prefix, as a power of ten
DocumentedFactor(c) ==
  CASE c = "p" -> -12 [] c = "n" -> -9 [] c = "u" -> -6
    [] c = "m" -> -3 [] c = "k" -> 3 [] c = "M" -> 6

\* the canonical unit and the kind the documentation gives for a unit word
CanonicalUnit(w) ==
  CASE LowerChar(w[1]) = "o" -> <<"o">>
    [] LowerChar(w[1]) = "f" -> <<"f">>
    [] LowerChar(w[1]) = "h" -> <<"h", "z">>
DocumentedKind(w) ==
  CASE LowerChar(w[1]) = "o" -> "resistance"
    [] LowerChar(w[1]) = "f" -> "capacitance"
    [] LowerChar(w[1]) = "h" -> "frequency"

UnableToParseReported ==
  \E k \in 1..Len(stdout) : stdout[k].line = "Error: unable to parse value."

\* C1: an argument <number><unit> without prefix, the number one or more
\* digits, parses without error and its magnitude is the number itself.
C1_PlainNumberParses ==
  (AtArg /\ IsPlainToken(args[i])) =>
     /\ failure \notin ParseFailures
     /\ (pc = "store" => magnitude = TokValue(args[i]))

\* C2: parsing an argument either succeeds or ends in one of the three
\* reported failures (unit not recognized, missing units, unable to parse
\* value); no IndexError and no unreported ValueError ends it.
C2_OnlyReportedFailures ==
  failure \in ParseFailures =>
     \/ failure \in {"UnitNotRecognized", "MissingUnits"}
     \/ (failure = "ValueError" /\ UnableToParseReported)

\* C3: an argument <number>K<unit> with an uppercase K as prefix never
\* parses: strip_prefix never returns a magnitude for it.
C3_UppercaseKFails ==
  (AtArg /\ IsKToken(args[i])) => pc # "store"

\* C4: an argument <number><prefix><unit> with an accepted prefix and the
\* unit in any letter case parses to number * factor of the prefix; M gives
\* 1e6 and m gives 1e-3 also before a unit word that contains an M.
C4_PrefixedMagnitude ==
  (AtArg /\ IsPrefixedToken(args[i])) =>
     /\ failure \notin ParseFailures
     /\ (pc = "store" =>
           magnitude = Norm(TokValue(args[i]).m,
                            TokValue(args[i]).e + DocumentedFactor(TokPrefix(args[i]))))

C4_Witness ==
  /\ pc = "store"
  /\ args[i] = <<"2", "M", "O", "H", "M">>
  /\ magnitude = [m |-> 2, e |-> 6]

\* C5: for an argument <number>[prefix]<unit> with any written unit in any
\* letter case, input_tidy leaves number, prefix and the canonical unit o, f
\* or hz, and get_unit files the value under resistance, capacitance or
\* frequency.
C5_UnitCanonical ==
  (AtArg /\ (IsPlainToken(args[i]) \/ IsPrefixedToken(args[i]))) =>
     /\ failure \notin {"UnitNotRecognized", "MissingUnits"}
     /\ (pc \in {"strip_unit", "strip_prefix", "store"} =>
           /\ tidy_arg = TokNumber(args[i])
                         \o (IF IsPlainToken(args[i]) THEN <<>> ELSE <<TokPrefix(args[i])>>)
                         \o CanonicalUnit(TokUnitWord(args[i]))
           /\ get_unit(tidy_arg).x = DocumentedKind(TokUnitWord(args[i])))
     /\ (pc = "solve" => values[DocumentedKind(TokUnitWord(args[i]))] = sig_fig(magnitude))
     /\ (pc = "tidy" /\ i = 2 /\ (IsPlainToken(args[1]) \/ IsPrefixedToken(args[1])) =>
           values[DocumentedKind(TokUnitWord(args[1]))] = sig_fig(magnitude))

C5_Witness ==
  /\ pc = "tidy"
  /\ i = 2
  /\ args[1] = <<"2", "0", "k", "H", "E", "R", "T", "Z">>
  /\ values.frequency = [m |-> 2, e |-> 4]

\* the number and the prefix symbol of a string returned by add_prefix
TextPrefix(t) == IF Len(t) > 0 /\ t[Len(t)] \in PrefixSymbols THEN t[Len(t)] ELSE ""
TextNumber(t) == IF TextPrefix(t) # "" THEN DropLast(t, 1) ELSE t

\* 1e-12 <= v < 1e9
InPrefixRange(v) == v.m > 0 /\ Pos(v) \in -11..9

\* the power of 1000 at which v has a coefficient in [1, 1000)
EngExponent(v) == 3 * ((Pos(v) - 1) \div 3)
SymbolOf(e) ==
  CASE e = -12 -> "p" [] e = -9 -> "n" [] e = -6 -> "u" [] e = -3 -> "m"
    [] e = 0 -> "" [] e = 3 -> "k" [] e = 6 -> "M"

\* 10^(3k) with k # 0
IsPowerOfThousand(v) == v.m = 1 /\ v.e % 3 = 0 /\ v.e # 0

EngineeringForm(v, t) ==
  LET n == ParseFloat(TextNumber(t))
  IN /\ n.ok
     /\ n.val.m > 0
     /\ Pos(n.val) \in 1..3
     /\ TextPrefix(t) = SymbolOf(EngExponent(v))
     /\ Norm(n.val.m, n.val.e + EngExponent(v)) = v

\* C6 as claimed: for every 3-significant-figure value in [1e-12, 1e9)
\* add_prefix returns a number in [1, 1000) followed by the symbol of the
\* matching power of 1000.
C6_EveryValueScaled ==
  (pc = "reparse" /\ InPrefixRange(res)) => EngineeringForm(res, text)

\* C6 amended: the same for every such value that is not an exact power of
\* 1000 other than 1 (1e-12, 1e-9, 1e-6, 1e-3, 1e3, 1e6).
C6_ScaledUnlessPowerOfThousand ==
  (pc = "reparse" /\ InPrefixRange(res) /\ ~IsPowerOfThousand(res)) =>
     EngineeringForm(res, text)

C6_Witness ==
  /\ pc = "reparse"
  /\ res = [m |-> 398, e |-> -13]
  /\ text = <<"3", "9", ".", "8", "p">>

\* C7: for every 3-significant-figure value in the prefix range,
\* strip_prefix applied to the string add_prefix returned succeeds and gives
\* the value back to 3 significant figures.
C7_RoundTrip ==
  (pc \in {"reparsed", "crashed"} /\ InPrefixRange(res)) =>
     /\ failure = "none"
     /\ sig_fig(magnitude) = res

NoQuantity == [ok |-> FALSE, kind |-> "", magnitude |-> Empty]
Quantity(t) ==
  LET a == input_tidy(t)
      b == strip_unit(a.x)
      c == strip_prefix(b.x)
  IN IF a.err # "none" THEN NoQuantity
     ELSE IF b.err # "none" THEN NoQuantity
     ELSE IF c.err # "none" THEN NoQuantity
     ELSE [ok |-> TRUE, kind |-> get_unit(a.x).x, magnitude |-> sig_fig(c.x)]

Kinds == {"frequency", "resistance", "capacitance"}

\* the two arguments parse to two distinct kinds
TwoKinds ==
  /\ Len(args) = 2
  /\ Quantity(args[1]).ok
  /\ Quantity(args[2]).ok
  /\ Quantity(args[1]).kind # Quantity(args[2]).kind

Supplied(k) ==
  IF Quantity(args[1]).kind = k THEN Quantity(args[1]).magnitude
  ELSE IF Quantity(args[2]).kind = k THEN Quantity(args[2]).magnitude
  ELSE Empty

Absent == CHOOSE k \in Kinds : Supplied(k) = Empty

Solved ==
  CASE Absent = "frequency" -> get_frequency(Supplied("resistance"), Supplied("capacitance"))
    [] Absent = "resistance" -> get_component(Supplied("frequency"), Supplied("capacitance"))
    [] Absent = "capacitance" -> get_component(Supplied("frequency"), Supplied("resistance"))

OneSentence ==
  /\ failure = "none"
  /\ (pc = "solve" => \A k \in Kinds : values[k] = Supplied(k))
  /\ (pc = "exit" =>
        stdout = <<Line("result", Absent, add_prefix(sig_fig(Solved.val)))>>)

\* C9 as claimed: whenever the two arguments parse to two distinct kinds, in
\* either order, the loop leaves exactly the third slot unknown and main
\* prints the one sentence of the third kind, computed by the formula of that
\* kind from the two supplied magnitudes.
C9_SolvesThird == TwoKinds => OneSentence

\* C9 amended: the same whenever the two magnitudes are not zero.
C9_SolvesThirdNonZero ==
  (TwoKinds /\ Quantity(args[1]).magnitude.m # 0 /\ Quantity(args[2]).magnitude.m # 0)
     => OneSentence

C9_Witness ==
  /\ pc = "exit"
  /\ args = << <<"2", "0", "n", "F">>, <<"2", "0", "0", "k", "o">> >>
  /\ stdout = <<Line("result", "frequency", <<"3", "9", ".", "8">>)>>

\* C10: for the value 1 and for a value that is exactly a power of 1000 of
\* the prefix table, add_prefix returns the bare number without a prefix.
C10_BoundaryBare ==
  (pc = "reparse" /\ res.m = 1 /\ res.e \in {-12, -9, -6, -3, 0, 3, 6}) =>
     /\ TextPrefix(text) = ""
     /\ ParseFloat(text).ok
     /\ ParseFloat(text).val = res

====
